---- MODULE Spec2Model ----
(***************************************************************************)
(* C Exception: try / catch / finally / throw for C, built on setjmp and   *)
(* longjmp.  The model follows c_exception.c (src/unnamed/part_002) and    *)
(* the macros of src/src/c_exception.h.                                    *)
(*                                                                         *)
(* A thread runs user code made of nested cx_try constructs.  cx_tb[t] is  *)
(* the sequence of the cx_tb objects that are live on the C stack of       *)
(* thread t, outermost first; control is always inside the last one (or in *)
(* top-level code when the sequence is empty).  A pointer to a try block   *)
(* is its index in that sequence, NoBlock for NULL.  Beside the fields of  *)
(* struct cx_impl_try_block a record carries the text of its construct     *)
(* as far as control has read it (clauses, closed, finally_block), the     *)
(* position of control inside it (at, k) and a history of what ran (log);  *)
(* none of these is read by an operation of the library.                   *)
(***************************************************************************)
EXTENDS Integers, Sequences, FiniteSets, TLC

\* ------------------------------------------------------------------ bounds
\* The statements of the library that the user code of a thread executes in
\* all: cx_try, cx_throw( xid ), cx_throw(), cx_set_xid_matcher() and
\* cx_set_terminate().
MaxActs == 4
MaxActsBoth == 3
MaxActsShared == 4

\* --------------------------------------------------------------- constants
Threads == {1, 2}

NULL == "NULL"
NoBlock == 0
CX_XID_ANY == 0

TEST_XID_ANY == 256
TEST_XID_01 == 257

\* Identifiers user code throws, and identifiers a catch clause names.
XIDs == {TEST_XID_ANY, TEST_XID_01}
CatchXIDs == XIDs \cup {CX_XID_ANY}
\* Payloads passed to cx_throw: none, or a pointer to user data.
UserData == {NULL, "data"}
\* __FILE__ and __LINE__ of a cx_throw.
ThisFile == "file.c"
Lines == {1}

CX_IMPL_INIT == "CX_IMPL_INIT"
CX_IMPL_TRY == "CX_IMPL_TRY"
CX_IMPL_THROWN == "CX_IMPL_THROWN"
CX_IMPL_CAUGHT == "CX_IMPL_CAUGHT"
CX_IMPL_FINALLY == "CX_IMPL_FINALLY"

CX_IMPL_TRY_CONDITION_CALLS == 1 + 1 + 1

cx_impl_default_terminate_handler == "cx_impl_default_terminate_handler"
user_terminate_handler == "user_terminate_handler"
TerminateHandlers == {cx_impl_default_terminate_handler, user_terminate_handler}

cx_impl_default_xid_matcher_fn == "cx_impl_default_xid_matcher"
test_xid_matcher_fn == "test_xid_matcher"
XidMatchers == {cx_impl_default_xid_matcher_fn, test_xid_matcher_fn}

\* The text of a construct is read as control reaches it: a catch clause
\* when it is first evaluated, the end of the clauses when the chain is
\* first exhausted, the finally block when CX_IMPL_FINALLY is first entered.
\* What has been read stays as read.  The clauses of a construct name
\* different identifiers: a second clause for the same identifier is never
\* entered, since the first one gets the same answer from cx_impl_catch.
FinallyBlocks == {"present", "absent"}

VARIABLES
  cx_impl_exception,          \* per thread: the current exception
  cx_impl_terminate_handler,  \* process-wide: the terminate handler
  cx_impl_try_block_head,     \* per thread: head of the list of open blocks
  cx_xid_matcher,             \* process-wide: the matcher function
  cx_tb,                      \* per thread: the live cx_tb objects
  NDEBUG,                     \* "defined" once a failed assert() was passed
  halted,                     \* "run", or how the process ended
  term_call,                  \* the call of the terminate handler, if any
  last,                       \* per thread: what its latest step threw or ended
  acts                        \* per thread: the statements counted by MaxActs

vars == <<cx_impl_exception, cx_impl_terminate_handler, cx_impl_try_block_head,
          cx_xid_matcher, cx_tb, NDEBUG, halted, term_call, last, acts>>

\* ----------------------------------------------------------------- history
BodyEv(b, k) == [ev |-> b, k |-> k, at |-> "", src |-> ""]
\* An exception reaches a construct: its identifier and payload, the body
\* the construct was in, whence it came ("throw", "rethrow" or "child"), and
\* the matcher installed at that moment.
ThrownEv(exc, at, src, m) ==
  [ev |-> "thrown", k |-> exc.thrown_xid, d |-> exc.user_data, at |-> at,
   src |-> src, m |-> m]
NestedEv(at, how) == [ev |-> "nested", k |-> 0, at |-> at, src |-> how]

NoLast == [how |-> "none"]
NoCall == [handler |-> NULL]

\* ------------------------------------------------------------ pure helpers
\* (cx_exception_t){ 0 }
ZeroException ==
  [thrown_file |-> NULL, thrown_line |-> 0, thrown_xid |-> 0, user_data |-> NULL]

\* x & 0xFF00 for 0 <= x
BitAndFF00(x) == ((x \div 256) % 256) * 256
\* x & 0x00FF for 0 <= x
BitAnd00FF(x) == x % 256

cx_impl_default_xid_matcher(thrown_xid, catch_xid) == thrown_xid = catch_xid

test_xid_matcher(thrown_xid, catch_xid) ==
  LET masked == IF BitAnd00FF(catch_xid) = 0 THEN BitAndFF00(thrown_xid)
                ELSE thrown_xid
  IN  masked = catch_xid

\* (*fn)( thrown_xid, catch_xid )
CallMatcher(fn, thrown_xid, catch_xid) ==
  IF fn = cx_impl_default_xid_matcher_fn
  THEN cx_impl_default_xid_matcher(thrown_xid, catch_xid)
  ELSE test_xid_matcher(thrown_xid, catch_xid)

\* Variant: no exception is current unless a block is linked.
cx_current_exception_Linked(t) ==
  IF cx_impl_try_block_head[t] = NoBlock \/ cx_impl_exception[t].thrown_file = NULL
  THEN NULL
  ELSE "&cx_impl_exception"

\* The pointer cx_current_exception() returns.
cx_current_exception(t) ==
  IF cx_impl_exception[t].thrown_file = NULL THEN NULL ELSE "&cx_impl_exception"

\* Variant: no payload is ever returned.
cx_user_data_None(t) == NULL

\* cx_user_data()
cx_user_data(t) ==
  IF cx_current_exception(t) # NULL THEN cx_impl_exception[t].user_data ELSE NULL

\* The block cx_impl_try_init() returns.
cx_impl_try_init ==
  [parent |-> NoBlock, state |-> CX_IMPL_INIT, thrown_xid |-> 0,
   caught_xid |-> 0, try_condition_calls |-> 0]

\* Variant: without the rule that refuses what the block already caught.
cx_impl_catch_Recatches(catch_xid, tb, matcher) ==
  IF catch_xid # CX_XID_ANY /\ ~CallMatcher(matcher, tb.thrown_xid, catch_xid)
  THEN [tb |-> tb, rv |-> FALSE]
  ELSE [tb |-> [tb EXCEPT !.state = CX_IMPL_CAUGHT,
                          !.caught_xid = tb.thrown_xid],
        rv |-> TRUE]

\* Variant: the matcher is consulted for the wildcard as for any identifier.
cx_impl_catch_AsksMatcher(catch_xid, tb, matcher) ==
  IF tb.caught_xid = tb.thrown_xid THEN [tb |-> tb, rv |-> FALSE]
  ELSE IF ~CallMatcher(matcher, tb.thrown_xid, catch_xid)
  THEN [tb |-> tb, rv |-> FALSE]
  ELSE [tb |-> [tb EXCEPT !.state = CX_IMPL_CAUGHT,
                          !.caught_xid = tb.thrown_xid],
        rv |-> TRUE]

\* Variant: the matcher is passed the identifier of the clause first.
cx_impl_catch_Swapped(catch_xid, tb, matcher) ==
  IF tb.caught_xid = tb.thrown_xid THEN [tb |-> tb, rv |-> FALSE]
  ELSE IF catch_xid # CX_XID_ANY /\ ~CallMatcher(matcher, catch_xid, tb.thrown_xid)
  THEN [tb |-> tb, rv |-> FALSE]
  ELSE [tb |-> [tb EXCEPT !.state = CX_IMPL_CAUGHT,
                          !.caught_xid = tb.thrown_xid],
        rv |-> TRUE]

\* Variant: a clause the matcher refuses records the identifier as caught.
cx_impl_catch_MarksRefused(catch_xid, tb, matcher) ==
  IF tb.caught_xid = tb.thrown_xid
  THEN [tb |-> tb, rv |-> FALSE]
  ELSE IF catch_xid # CX_XID_ANY /\ ~CallMatcher(matcher, tb.thrown_xid, catch_xid)
  THEN [tb |-> [tb EXCEPT !.caught_xid = tb.thrown_xid], rv |-> FALSE]
  ELSE [tb |-> [tb EXCEPT !.state = CX_IMPL_CAUGHT, !.caught_xid = tb.thrown_xid],
        rv |-> TRUE]

\* cx_impl_catch on block tb, past its assertions: the block afterwards and
\* the value returned.
cx_impl_catch(catch_xid, tb, matcher) ==
  IF tb.caught_xid = tb.thrown_xid
  THEN [tb |-> tb, rv |-> FALSE]
  ELSE IF catch_xid # CX_XID_ANY /\ ~CallMatcher(matcher, tb.thrown_xid, catch_xid)
  THEN [tb |-> tb, rv |-> FALSE]
  ELSE [tb |-> [tb EXCEPT !.state = CX_IMPL_CAUGHT, !.caught_xid = tb.thrown_xid],
        rv |-> TRUE]

\* ---------------------------------------------------------------- position
Top(t) == Len(cx_tb[t])

\* Control of thread t is in user code: top-level code, or a body of the
\* innermost construct.
InBody(t) ==
  /\ halted = "run"
  /\ IF Top(t) = 0 THEN TRUE
     ELSE LET tb == cx_tb[t][Top(t)]
          IN  \/ tb.at \in {"try", "catch"}
              \/ tb.at = "finally" /\ tb.finally_block = "present"

\* User code of thread t may still throw or nest.
MayAct(t) == acts[t] < MaxActs

\* ------------------------------------------------------------------- Init
Init ==
  /\ cx_impl_exception = [t \in Threads |-> ZeroException]
  /\ cx_impl_terminate_handler = cx_impl_default_terminate_handler
  /\ cx_impl_try_block_head = [t \in Threads |-> NoBlock]
  /\ cx_xid_matcher = cx_impl_default_xid_matcher_fn
  /\ cx_tb = [t \in Threads |-> <<>>]
  /\ NDEBUG = "either"
  /\ halted = "run"
  /\ term_call = NoCall
  /\ last = [t \in Threads |-> NoLast]
  /\ acts = [t \in Threads |-> 0]

\* ---------------------------------------------------------------- actions
\* assert( ok ) where ok is false.  The build is not known until an
\* assertion fails: a debug build aborts there, a build with NDEBUG goes on
\* (and is known to be one from then on).
AssertAborts ==
  /\ NDEBUG = "either"
  /\ halted' = "assert"
  /\ UNCHANGED <<cx_impl_exception, cx_impl_try_block_head, cx_tb, term_call, NDEBUG>>

\* Variant: the handler that was built in is called, whatever is installed.
cx_terminate_BuiltIn(exc) ==
  /\ halted' = "terminate"
  /\ term_call' = [handler |-> cx_impl_default_terminate_handler, cex |-> exc]

\* cx_terminate(): the handler is called with &cx_impl_exception and does
\* not return.
cx_terminate(exc) ==
  /\ halted' = "terminate"
  /\ term_call' = [handler |-> cx_impl_terminate_handler, cex |-> exc]

\* Variant: control is transferred to block h with its state left as it was.
Longjmp_Unmarked(frames, h, exc, src) ==
  [SubSeq(frames, 1, h) EXCEPT
     ![h] = [@ EXCEPT !.thrown_xid = exc.thrown_xid,
                      !.k = 1,
                      !.at = "offer",
                      !.log = Append(@, ThrownEv(exc, frames[h].at, src,
                                                 cx_xid_matcher))]]

\* longjmp( frames[h].env, 1 ) after cx_impl_do_throw marked block h: the
\* frames entered since its setjmp are gone and control is at the first
\* catch clause of block h.
Longjmp(frames, h, exc, src) ==
  [SubSeq(frames, 1, h) EXCEPT
     ![h] = [@ EXCEPT !.state = CX_IMPL_THROWN,
                      !.thrown_xid = exc.thrown_xid,
                      !.k = 1,
                      !.at = "offer",
                      !.log = Append(@, ThrownEv(exc, frames[h].at, src,
                                                 cx_xid_matcher))]]

\* Variant: the exception goes to the scope enclosing the list head.
cx_impl_do_throw_Outer(t, head, frames, exc, src) ==
  LET to == IF head = NoBlock THEN NoBlock ELSE frames[head].parent
  IN  /\ cx_impl_try_block_head' = [cx_impl_try_block_head EXCEPT ![t] = to]
      /\ IF to = NoBlock
         THEN /\ cx_terminate(exc)
              /\ cx_tb' = [cx_tb EXCEPT ![t] = frames]
         ELSE /\ cx_tb' = [cx_tb EXCEPT ![t] = Longjmp(frames, to, exc, src)]
              /\ UNCHANGED <<halted, term_call>>

\* Variant: the list head is one variable of the process, not one per thread.
cx_impl_do_throw_Shared(t, head, frames, exc, src) ==
  /\ cx_impl_try_block_head' = [u \in Threads |-> head]
  /\ IF head = NoBlock
     THEN /\ cx_terminate(exc)
          /\ cx_tb' = [cx_tb EXCEPT ![t] = frames]
     ELSE /\ cx_tb' = [cx_tb EXCEPT ![t] = Longjmp(frames, head, exc, src)]
          /\ UNCHANGED <<halted, term_call>>

\* cx_impl_do_throw() with the list head, the live blocks and the current
\* exception as they are when it is called.
cx_impl_do_throw(t, head, frames, exc, src) ==
  /\ cx_impl_try_block_head' = [cx_impl_try_block_head EXCEPT ![t] = head]
  /\ IF head = NoBlock
     THEN /\ cx_terminate(exc)
          /\ cx_tb' = [cx_tb EXCEPT ![t] = frames]
     ELSE /\ cx_tb' = [cx_tb EXCEPT ![t] = Longjmp(frames, head, exc, src)]
          /\ UNCHANGED <<halted, term_call>>

\* cx_impl_throw( throw_file, throw_line, xid, user_data )
cx_impl_throw(t, throw_file, throw_line, xid, user_data, src) ==
  LET ok == throw_file # NULL /\ throw_line > 0 /\ xid # 0
      exc == [thrown_file |-> throw_file, thrown_line |-> throw_line,
              thrown_xid |-> xid, user_data |-> user_data]
  IN  \/ /\ ~ok
         /\ AssertAborts
      \/ /\ NDEBUG' = IF ok THEN NDEBUG ELSE "defined"
         /\ cx_impl_exception' = [cx_impl_exception EXCEPT ![t] = exc]
         /\ cx_impl_do_throw(t, cx_impl_try_block_head[t], cx_tb[t], exc, src)

\* cx_throw( xid ) and cx_throw( xid, data ) in user code.
Throw(t, xid, data, line) ==
  /\ InBody(t)
  /\ MayAct(t)
  /\ acts' = [acts EXCEPT ![t] = @ + 1]
  /\ cx_impl_throw(t, ThisFile, line, xid, data, "throw")
  /\ last' = [last EXCEPT ![t] =
       [how |-> "throw", xid |-> xid, data |-> data, line |-> line,
        depth |-> Top(t)]]
  /\ UNCHANGED <<cx_impl_terminate_handler, cx_xid_matcher>>

\* cx_throw() in a body of the innermost construct:
\* cx_impl_throw( __FILE__, __LINE__, cx_tb.thrown_xid, cx_user_data() ).
Rethrow(t, line) ==
  /\ InBody(t)
  /\ Top(t) > 0
  /\ MayAct(t)
  /\ acts' = [acts EXCEPT ![t] = @ + 1]
  /\ cx_impl_throw(t, ThisFile, line, cx_tb[t][Top(t)].thrown_xid,
                   cx_user_data(t), "rethrow")
  /\ last' = [last EXCEPT ![t] =
       [how |-> "rethrow", xid |-> cx_tb[t][Top(t)].thrown_xid,
        data |-> cx_user_data(t), line |-> line, depth |-> Top(t),
        cur |-> cx_current_exception(t)]]
  /\ UNCHANGED <<cx_impl_terminate_handler, cx_xid_matcher>>

\* Variant: the new block is not linked to the block that was the head.
TryConditionInit_Unlinked(tb, head) ==
  [tb EXCEPT !.try_condition_calls = @ + 1,
             !.parent = NoBlock,
             !.state = CX_IMPL_TRY]

\* cx_impl_try_condition( tb ), case CX_IMPL_INIT, for the new block tb.
TryConditionInit(tb, head) ==
  [tb EXCEPT !.try_condition_calls = @ + 1,
             !.parent = head,
             !.state = CX_IMPL_TRY]

\* cx_try: the for loop's initialisation, the first call of
\* cx_impl_try_condition, and setjmp returning 0.
Try(t) ==
  /\ InBody(t)
  /\ MayAct(t)
  /\ acts' = [acts EXCEPT ![t] = @ + 1]
  /\ LET tb == TryConditionInit(cx_impl_try_init, cx_impl_try_block_head[t])
         blk == [parent |-> tb.parent, state |-> tb.state,
                 thrown_xid |-> tb.thrown_xid, caught_xid |-> tb.caught_xid,
                 try_condition_calls |-> tb.try_condition_calls,
                 clauses |-> <<>>, closed |-> FALSE, finally_block |-> "unread",
                 at |-> "try", k |-> 0, log |-> <<BodyEv("try", 0)>>]
     IN  /\ cx_tb' = [cx_tb EXCEPT ![t] = Append(@, blk)]
         /\ cx_impl_try_block_head' =
              [cx_impl_try_block_head EXCEPT ![t] = Top(t) + 1]
  /\ last' = [last EXCEPT ![t] = NoLast]
  /\ UNCHANGED <<cx_impl_exception, cx_impl_terminate_handler, cx_xid_matcher,
                 NDEBUG, halted, term_call>>

\* Variant: a clause that refuses passes control over the next clause.
ElseIf_Skips(k) == k + 2

\* "else if": the clause to which control falls when clause k refuses.
ElseIf(k) == k + 1

\* cx_catch( xid ) and cx_catch(): the next clause of the chain is
\* evaluated, "else if ( cx_impl_catch( xid, &cx_tb ) )".
Catch(t, catch_xid) ==
  /\ UNCHANGED acts
  /\ halted = "run"
  /\ Top(t) > 0
  /\ LET i == Top(t)
         tb == cx_tb[t][i]
         ok == tb.state = CX_IMPL_THROWN
         r == cx_impl_catch(catch_xid, tb, cx_xid_matcher)
         read == IF tb.k <= Len(tb.clauses) THEN tb.clauses
                 ELSE Append(tb.clauses, catch_xid)
     IN  /\ tb.at = "offer"
         /\ IF tb.k <= Len(tb.clauses)
            THEN catch_xid = tb.clauses[tb.k]
            ELSE ~tb.closed /\ \A j \in 1..Len(tb.clauses) : tb.clauses[j] # catch_xid
         /\ \/ /\ ~ok
               /\ AssertAborts
            \/ /\ NDEBUG' = IF ok THEN NDEBUG ELSE "defined"
               /\ cx_tb' = [cx_tb EXCEPT ![t][i] =
                    IF r.rv
                    THEN [r.tb EXCEPT !.clauses = read,
                                      !.at = "catch",
                                      !.log = Append(@, BodyEv("catch", tb.k))]
                    ELSE [r.tb EXCEPT !.clauses = read, !.k = ElseIf(@)]]
               /\ UNCHANGED <<cx_impl_exception, cx_impl_try_block_head,
                              halted, term_call>>
  /\ last' = [last EXCEPT ![t] =
       [how |-> "catch", catch_xid |-> catch_xid,
        thrown_xid |-> cx_tb[t][Top(t)].thrown_xid,
        caught_xid |-> cx_tb[t][Top(t)].caught_xid,
        rv |-> cx_impl_catch(catch_xid, cx_tb[t][Top(t)], cx_xid_matcher).rv]]
  /\ UNCHANGED <<cx_impl_terminate_handler, cx_xid_matcher>>

\* Variant: a caught exception is not reset when the catch body is left.
TryConditionFinally_KeepsThrown(tb) ==
  [tb EXCEPT !.try_condition_calls = @ + 1,
             !.state = CX_IMPL_FINALLY]

\* cx_impl_try_condition( tb ), cases CX_IMPL_CAUGHT, CX_IMPL_TRY and
\* CX_IMPL_THROWN: the block as it is when true is returned.
TryConditionFinally(tb) ==
  [tb EXCEPT !.try_condition_calls = @ + 1,
             !.thrown_xid = IF tb.state = CX_IMPL_CAUGHT THEN 0 ELSE @,
             !.state = CX_IMPL_FINALLY]

\* Variant: nothing is ever taken to be uncaught after the finally body.
Uncaught_Never(tb) == FALSE

\* "if ( tb->thrown_xid != 0 )" of case CX_IMPL_FINALLY.
Uncaught(tb) == tb.thrown_xid # 0

\* The block that leaves the C stack when its construct ends, and the
\* history of the enclosing construct.
Pop(frames, how) ==
  LET i == Len(frames)
  IN  IF i = 1 THEN <<>>
      ELSE [SubSeq(frames, 1, i - 1) EXCEPT
              ![i - 1].log = Append(@, NestedEv(frames[i - 1].at, how))]

\* Variant: the driver call that ends a construct puts the default matcher
\* back.
MatcherAfterDriver_Restores(matcher, tb) ==
  IF tb.state = CX_IMPL_FINALLY THEN cx_impl_default_xid_matcher_fn ELSE matcher

\* cx_impl_try_condition( tb ) assigns nothing to cx_xid_matcher.
MatcherAfterDriver(matcher, tb) == matcher

\* Variant: the record is reset only when the outermost construct completes.
ExceptionAtCompletion_Outermost(exc, tb) ==
  IF tb.parent = NoBlock THEN ZeroException ELSE exc

\* cx_impl_try_condition( tb ), case CX_IMPL_FINALLY with nothing pending:
\* "cx_impl_exception = (cx_exception_t){ 0 }", for every block.
ExceptionAtCompletion(exc, tb) == ZeroException

\* Variant: the block is unlinked when it moves to CX_IMPL_FINALLY, before
\* its finally body runs.
HeadAtFinally_Pops(head, tb) == tb.parent

\* cx_impl_try_condition( tb ), cases CX_IMPL_CAUGHT, CX_IMPL_TRY and
\* CX_IMPL_THROWN: the list head is not touched.
HeadAtFinally(head, tb) == head

\* The loop condition cx_impl_try_condition( &cx_tb ), reached when a body
\* ends (or "continue"s) or when no catch clause is left, for a block that
\* is past CX_IMPL_INIT.
\* try_condition_calls counts the calls as a build without NDEBUG does; a
\* build with NDEBUG has neither the field nor the assertion on it.
TryCondition(t, fin) ==
  /\ UNCHANGED acts
  /\ halted = "run"
  /\ Top(t) > 0
  /\ LET i == Top(t)
         tb == cx_tb[t][i]
         \* the text read by this step
         rd == [tb EXCEPT !.closed = @ \/ tb.at = "offer",
                          !.finally_block = fin]
         ok == /\ tb.try_condition_calls + 1 <= CX_IMPL_TRY_CONDITION_CALLS
               /\ tb.state = CX_IMPL_FINALLY => cx_impl_try_block_head[t] = i
     IN  /\ \/ tb.at \in {"try", "catch", "finally"}
            \/ tb.at = "offer" /\ tb.k > Len(tb.clauses)
         /\ tb.state # CX_IMPL_INIT
         /\ IF tb.finally_block # "unread" THEN fin = tb.finally_block
            ELSE /\ fin \in FinallyBlocks
                 /\ rd.closed /\ Len(tb.clauses) = 0 => fin = "present"
         /\ \/ /\ ~ok
               /\ AssertAborts
               /\ last' = [last EXCEPT ![t] = NoLast]
            \/ /\ NDEBUG' = IF ok THEN NDEBUG ELSE "defined"
               /\ IF tb.state # CX_IMPL_FINALLY
                  THEN \* true is returned: the finally block, if any, runs
                       /\ cx_tb' = [cx_tb EXCEPT ![t][i] =
                            [TryConditionFinally(rd) EXCEPT
                               !.at = "finally",
                               !.log = IF fin = "present"
                                       THEN Append(@, BodyEv("finally", 0))
                                       ELSE @]]
                       /\ cx_impl_try_block_head' =
                            [cx_impl_try_block_head EXCEPT ![t] =
                               HeadAtFinally(@, tb)]
                       /\ last' = [last EXCEPT ![t] = NoLast]
                       /\ UNCHANGED <<cx_impl_exception, halted, term_call>>
                  ELSE LET tb1 == [rd EXCEPT !.try_condition_calls = @ + 1]
                       IN  IF Uncaught(tb)
                           THEN \* rethrow uncaught exception
                                /\ cx_impl_do_throw(t, tb.parent,
                                     [cx_tb[t] EXCEPT ![i] = tb1],
                                     cx_impl_exception[t], "child")
                                /\ last' = [last EXCEPT ![t] =
                                     [how |-> IF tb.parent = NoBlock
                                              THEN "unhandled" ELSE "propagated",
                                      tb |-> tb1]]
                                /\ UNCHANGED cx_impl_exception
                           ELSE \* false is returned: the construct is complete
                                /\ cx_impl_try_block_head' =
                                     [cx_impl_try_block_head EXCEPT ![t] = tb.parent]
                                /\ cx_impl_exception' =
                                     [cx_impl_exception EXCEPT ![t] =
                                        ExceptionAtCompletion(@, tb)]
                                /\ cx_tb' = [cx_tb EXCEPT ![t] = Pop(@, "completed")]
                                /\ last' = [last EXCEPT ![t] =
                                     [how |-> "completed", tb |-> tb1]]
                                /\ UNCHANGED <<halted, term_call>>
  /\ cx_xid_matcher' = MatcherAfterDriver(cx_xid_matcher, cx_tb[t][Top(t)])
  /\ UNCHANGED cx_impl_terminate_handler

\* Variant: the block stays linked.
cx_impl_cancel_try_Keeps(head, i, frames) == head

\* Variant: the list head is unlinked, whichever block is passed.
cx_impl_cancel_try_PopsHead(head, i, frames) ==
  IF head # NoBlock THEN frames[head].parent ELSE head

\* cx_impl_cancel_try( tb ) for the block with index i of the live blocks:
\* the list head afterwards.
cx_impl_cancel_try(head, i, frames) ==
  IF head = i THEN frames[i].parent ELSE head

\* cx_cancel_try() in a body of the innermost construct:
\* cx_impl_cancel_try( &cx_tb ).  User code must then leave the block.
CancelTry(t) ==
  /\ UNCHANGED acts
  /\ halted = "run"
  /\ Top(t) > 0
  /\ LET i == Top(t)
         tb == cx_tb[t][i]
     IN  /\ \/ tb.at \in {"try", "catch", "cancelled"}
            \/ tb.at = "finally" /\ tb.finally_block = "present"
         /\ cx_impl_try_block_head' =
              [cx_impl_try_block_head EXCEPT ![t] =
                 cx_impl_cancel_try(@, i, cx_tb[t])]
         /\ cx_tb' = [cx_tb EXCEPT ![t][i].at = "cancelled"]
  /\ last' = [last EXCEPT ![t] =
       [how |-> "cancel", frames |-> cx_tb[t],
        head |-> cx_impl_try_block_head[t], exc |-> cx_impl_exception[t]]]
  /\ UNCHANGED <<cx_impl_exception, cx_impl_terminate_handler, cx_xid_matcher,
                 NDEBUG, halted, term_call>>

\* The break, goto or return that leaves the block after cx_cancel_try():
\* the cx_tb object goes out of scope and control is in the enclosing code.
LeaveBlock(t) ==
  /\ UNCHANGED acts
  /\ halted = "run"
  /\ Top(t) > 0
  /\ cx_tb[t][Top(t)].at = "cancelled"
  /\ cx_tb' = [cx_tb EXCEPT ![t] = Pop(@, "cancelled")]
  /\ last' = [last EXCEPT ![t] = [how |-> "cancelled", tb |-> cx_tb[t][Top(t)]]]
  /\ UNCHANGED <<cx_impl_exception, cx_impl_terminate_handler,
                 cx_impl_try_block_head, cx_xid_matcher, NDEBUG, halted, term_call>>

\* Variant: a setter returns NULL whatever was installed.
Previous_Null(installed) == NULL

\* "rv = cx_xid_matcher" and "rv = cx_impl_terminate_handler": what a setter
\* returns is the function that was installed, as it is.
Previous(installed) == installed

\* "fn == NULL ? &default : fn": what a setter installs.
Installs(fn, default) == IF fn = NULL THEN default ELSE fn

\* "installed == &default ? NULL : installed": what a getter returns.
Getter(installed, default) == IF installed = default THEN NULL ELSE installed

\* cx_set_xid_matcher( fn ); orig is the matcher that was installed before
\* the call whose result fn is, when fn is such a result.
SetXidMatcher(t, fn, how, orig) ==
  /\ MayAct(t)
  /\ acts' = [acts EXCEPT ![t] = @ + 1]
  /\ InBody(t)
  /\ cx_xid_matcher' = Installs(fn, cx_impl_default_xid_matcher_fn)
  /\ last' = [last EXCEPT ![t] =
       [how |-> how, fn |-> fn, rv |-> Previous(cx_xid_matcher),
        before |-> cx_xid_matcher, orig |-> orig]]
  /\ UNCHANGED <<cx_impl_exception, cx_impl_terminate_handler,
                 cx_impl_try_block_head, cx_tb, NDEBUG, halted, term_call>>

\* cx_set_xid_matcher( fn ) with a function of the user or NULL.
cx_set_xid_matcher(t, fn) == SetXidMatcher(t, fn, "cx_set_xid_matcher", NULL)

\* prev = cx_set_xid_matcher( fn ); cx_set_xid_matcher( prev ): the second
\* call.
RestoreXidMatcher(t) ==
  /\ last[t].how = "cx_set_xid_matcher"
  /\ SetXidMatcher(t, last[t].rv, "restore_xid_matcher", last[t].before)

\* cx_set_terminate( fn )
SetTerminate(t, fn, how, orig) ==
  /\ MayAct(t)
  /\ acts' = [acts EXCEPT ![t] = @ + 1]
  /\ InBody(t)
  /\ cx_impl_terminate_handler' =
       Installs(fn, cx_impl_default_terminate_handler)
  /\ last' = [last EXCEPT ![t] =
       [how |-> how, fn |-> fn, rv |-> Previous(cx_impl_terminate_handler),
        before |-> cx_impl_terminate_handler, orig |-> orig]]
  /\ UNCHANGED <<cx_impl_exception, cx_impl_try_block_head, cx_xid_matcher,
                 cx_tb, NDEBUG, halted, term_call>>

\* cx_set_terminate( fn ) with a handler of the user or NULL.
cx_set_terminate(t, fn) == SetTerminate(t, fn, "cx_set_terminate", NULL)

\* prev = cx_set_terminate( fn ); cx_set_terminate( prev ): the second call.
RestoreTerminate(t) ==
  /\ last[t].how = "cx_set_terminate"
  /\ SetTerminate(t, last[t].rv, "restore_terminate", last[t].before)

\* cx_get_xid_matcher() and cx_get_terminate(), which read nothing of the
\* constructs, called by user code outside every construct.
cx_get_xid_matcher(t) ==
  /\ MayAct(t)
  /\ acts' = [acts EXCEPT ![t] = @ + 1]
  /\ halted = "run"
  /\ Top(t) = 0
  /\ last' = [last EXCEPT ![t] =
       [how |-> "cx_get_xid_matcher",
        rv |-> Getter(cx_xid_matcher, cx_impl_default_xid_matcher_fn)]]
  /\ UNCHANGED <<cx_impl_exception, cx_impl_terminate_handler, cx_xid_matcher,
                 cx_impl_try_block_head, cx_tb, NDEBUG, halted, term_call>>

cx_get_terminate(t) ==
  /\ MayAct(t)
  /\ acts' = [acts EXCEPT ![t] = @ + 1]
  /\ halted = "run"
  /\ Top(t) = 0
  /\ last' = [last EXCEPT ![t] =
       [how |-> "cx_get_terminate",
        rv |-> Getter(cx_impl_terminate_handler,
                      cx_impl_default_terminate_handler)]]
  /\ UNCHANGED <<cx_impl_exception, cx_impl_terminate_handler, cx_xid_matcher,
                 cx_impl_try_block_head, cx_tb, NDEBUG, halted, term_call>>

Step(t) ==
  \/ Try(t)
  \/ \E xid \in XIDs, data \in UserData, line \in Lines : Throw(t, xid, data, line)
  \/ \E line \in Lines : Rethrow(t, line)
  \/ \E catch_xid \in CatchXIDs : Catch(t, catch_xid)
  \/ \E fin \in FinallyBlocks \cup {"unread"} : TryCondition(t, fin)
  \/ CancelTry(t)
  \/ LeaveBlock(t)
  \/ \E fn \in {test_xid_matcher_fn, NULL} : cx_set_xid_matcher(t, fn)
  \/ \E fn \in {user_terminate_handler, NULL} : cx_set_terminate(t, fn)
  \/ RestoreXidMatcher(t)
  \/ RestoreTerminate(t)
  \/ cx_get_xid_matcher(t)
  \/ cx_get_terminate(t)

Next == Step(1)

Spec == Init /\ [][Next]_vars

\* Two threads, each running statements of its own, interleaved in every
\* way; MaxActsBoth bounds the statements of the two together.
Within == acts'[1] + acts'[2] <= MaxActsBoth

NextThreads ==
  \E t \in Threads :
    \/ Try(t) /\ Within
    \/ \E xid \in XIDs, data \in UserData, line \in Lines :
         Throw(t, xid, data, line) /\ Within
    \/ \E line \in Lines : Rethrow(t, line) /\ Within
    \/ \E catch_xid \in CatchXIDs : Catch(t, catch_xid)
    \/ \E fin \in FinallyBlocks \cup {"unread"} : TryCondition(t, fin)
    \/ CancelTry(t)
    \/ LeaveBlock(t)
    \/ \E fn \in {test_xid_matcher_fn, NULL} :
         cx_set_xid_matcher(t, fn) /\ Within
    \/ \E fn \in {user_terminate_handler, NULL} :
         cx_set_terminate(t, fn) /\ Within
    \/ RestoreXidMatcher(t) /\ Within
    \/ RestoreTerminate(t) /\ Within
    \/ cx_get_xid_matcher(t) /\ Within
    \/ cx_get_terminate(t) /\ Within

SpecThreads == Init /\ [][NextThreads]_vars

\* The same two threads, each of which may besides end the idiom
\* prev = cx_set_xid_matcher( fn ); cx_set_xid_matcher( prev ) as one of
\* MaxActsShared statements of the two together.
NextShared ==
  \/ NextThreads
  \/ \E t \in Threads :
       RestoreXidMatcher(t) /\ acts'[1] + acts'[2] <= MaxActsShared

SpecShared == Init /\ [][NextShared]_vars

----------------------------------------------------------------------------
\* Reading a construct's history.

IsBody(e) == e.ev \in {"try", "catch", "finally"}
IsThrown(e) == e.ev = "thrown"
IsCatch(e) == e.ev = "catch"
IsFinally(e) == e.ev = "finally"

\* The bodies a construct ran, and the exceptions that reached it, in order.
Bodies(log) == SelectSeq(log, IsBody)
Throws(log) == SelectSeq(log, IsThrown)
CatchCount(log) == Len(SelectSeq(log, IsCatch))
FinallyCount(log) == Len(SelectSeq(log, IsFinally))

\* Position in the log of the n-th exception that reached the construct.
RECURSIVE ThrownAt(_, _, _)
ThrownAt(log, n, from) ==
  IF from > Len(log) THEN 0
  ELSE IF IsThrown(log[from])
       THEN IF n = 1 THEN from ELSE ThrownAt(log, n - 1, from + 1)
       ELSE ThrownAt(log, n, from + 1)

\* A nested construct ended inside the construct after position p of its log.
NestedAfter(log, p) == \E q \in (p + 1)..Len(log) : log[q].ev = "nested"

\* What the finally part of a construct contributes to its bodies.
FinallyOnce(tb) ==
  IF tb.finally_block = "present" THEN <<BodyEv("finally", 0)>> ELSE <<>>

\* A catch clause written for catch_xid takes the identifier xid when the
\* matcher m is installed: the wildcard takes everything.
ClauseTakes(catch_xid, xid, m) ==
  catch_xid = CX_XID_ANY \/ CallMatcher(m, xid, catch_xid)

\* The first clause of the construct that takes xid, 0 when none does.
FirstTaker(clauses, xid, m) ==
  LET S == {j \in 1..Len(clauses) : ClauseTakes(clauses[j], xid, m)}
  IN  IF S = {} THEN 0 ELSE CHOOSE j \in S : \A i \in S : j <= i

\* The construct of thread t ended in the latest step, other than by being
\* cancelled.
Ended(t) == last[t].how \in {"completed", "propagated", "unhandled"}

\* The try body of the construct threw (or let through from a nested
\* construct) a non-zero identifier, and nothing else ever reached it.
OneThrowFromTry(tb) ==
  LET th == Throws(tb.log)
  IN  /\ Len(th) = 1
      /\ th[1].at = "try"
      /\ th[1].k # 0

----------------------------------------------------------------------------
\* C1: for every non-zero identifier X and every construct with a catch
\* clause that matches X under the installed matcher, when the try body
\* throws X and no catch body or finally body throws, the construct completes;
\* the bodies it ran are, in this order, the try body, the catch body of the
\* first matching clause once and no other catch body, and the finally body
\* once if there is one; and no exception is pending afterwards.
C1_MatchingCatchRunsOnce ==
  \A t \in Threads :
    Ended(t) =>
      LET tb == last[t].tb
          th == Throws(tb.log)
          j  == FirstTaker(tb.clauses, th[1].k, th[1].m)
      IN  (OneThrowFromTry(tb) /\ j # 0) =>
            /\ last[t].how = "completed"
            /\ Bodies(tb.log) =
                 <<BodyEv("try", 0), BodyEv("catch", j)>> \o FinallyOnce(tb)
            /\ tb.thrown_xid = 0
            /\ cx_current_exception(t) = NULL

\* A construct whose second clause matches, with a finally body, completed.
C1_Witness ==
  /\ last[1].how = "completed"
  /\ OneThrowFromTry(last[1].tb)
  /\ LET e == Throws(last[1].tb.log)[1]
     IN  FirstTaker(last[1].tb.clauses, e.k, e.m) = 2
  /\ last[1].tb.finally_block = "present"

\* C2: in every execution of a construct that is not cancelled the finally
\* body runs exactly once: never twice while the construct runs, and once by
\* the time it ends, whatever its try, catch and finally bodies throw.
C2_FinallyRunsExactlyOnce ==
  \A t \in Threads :
    /\ \A i \in 1..Top(t) :
         cx_tb[t][i].at # "cancelled" => FinallyCount(cx_tb[t][i].log) <= 1
    /\ (Ended(t) /\ last[t].tb.finally_block = "present") =>
         FinallyCount(last[t].tb.log) = 1

\* C3: during one execution of a construct at most one of its catch bodies
\* is entered, for every sequence of throws.
C3_AtMostOneCatchBody ==
  \A t \in Threads :
    /\ \A i \in 1..Top(t) : CatchCount(cx_tb[t][i].log) <= 1
    /\ last[t].how \in {"completed", "propagated", "unhandled", "cancelled"} =>
         CatchCount(last[t].tb.log) <= 1

\* The try body threw an identifier that no clause of the construct takes.
NoClauseTakes(tb) ==
  /\ OneThrowFromTry(tb)
  /\ LET e == Throws(tb.log)[1] IN FirstTaker(tb.clauses, e.k, e.m) = 0

\* C4: when the try body throws an identifier that none of the catch clauses
\* of the construct matches, no catch body of the construct runs, its finally
\* body runs exactly once, and only then is the exception delivered: to the
\* parent scope, which becomes THROWN and whose clauses are offered from the
\* first on, or to the terminate handler when there is no parent.  While the
\* construct is live no enclosing scope is being offered anything, and the
\* identifier delivered is the one thrown when no nested construct ended
\* inside the finally body.
C4_UnmatchedRunsFinallyThenPropagates ==
  \A t \in Threads :
    /\ \A i \in 1..(Top(t) - 1) :
         last[t].how # "unhandled" =>
           cx_tb[t][i].at \in {"try", "catch", "finally"}
    /\ (Ended(t) /\ NoClauseTakes(last[t].tb)) =>
         LET tb == last[t].tb
             e  == Throws(tb.log)[1]
             clean == ~NestedAfter(tb.log, ThrownAt(tb.log, 1, 1))
         IN  /\ Bodies(tb.log) = <<BodyEv("try", 0)>> \o FinallyOnce(tb)
             /\ last[t].how # "completed"
             /\ last[t].how = "propagated" =>
                  /\ tb.parent = Top(t)
                  /\ cx_impl_try_block_head[t] = Top(t)
                  /\ cx_tb[t][Top(t)].state = CX_IMPL_THROWN
                  /\ cx_tb[t][Top(t)].at = "offer"
                  /\ cx_tb[t][Top(t)].k = 1
                  /\ clean => cx_tb[t][Top(t)].thrown_xid = e.k
             /\ last[t].how = "unhandled" =>
                  /\ tb.parent = NoBlock
                  /\ halted = "terminate"
                  /\ term_call.handler = cx_impl_terminate_handler
                  /\ clean => term_call.cex.thrown_xid = e.k
    /\ (halted = "terminate" /\ Top(t) > 0) =>
         /\ last[t].how = "unhandled"
         /\ last[t].tb.finally_block # "unread"

\* An unmatched exception left a construct with a finally body for its parent.
C4_Witness ==
  /\ last[1].how = "propagated"
  /\ NoClauseTakes(last[1].tb)
  /\ Len(last[1].tb.clauses) >= 1
  /\ last[1].tb.finally_block = "present"
  /\ cx_tb[1][Top(1)].thrown_xid = Throws(last[1].tb.log)[1].k

\* The construct caught what its try body threw and the catch body did
\* nothing to the library but throw again, by src ("throw" or "rethrow");
\* no nested construct ended in the catch body or in the finally body.
CatchBodyThrew(tb, src) ==
  LET th == Throws(tb.log)
      p1 == ThrownAt(tb.log, 1, 1)
  IN  /\ Len(th) = 2
      /\ th[1].at = "try" /\ th[1].k # 0
      /\ th[2].at = "catch" /\ th[2].src = src
      /\ ~NestedAfter(tb.log, p1)

\* C5: a rethrow executed in a catch body is never recaught by a clause of
\* the same construct, the wildcard included: the body entered next is never
\* a catch body.  When the catch body that caught identifier X with payload P
\* does nothing else, the construct runs its finally body once and ends by
\* handing the exception on: the enclosing scope becomes THROWN with X, its
\* clauses are offered from the first on with the current exception carrying
\* X and P, and a scope that was in its try body is free to catch it; without
\* an enclosing scope the terminate handler is passed X and P.
C5_RethrowIsNeverRecaught ==
  \A t \in Threads :
    /\ \A i \in 1..Top(t) :
         LET log == cx_tb[t][i].log
         IN  \A p \in 1..(Len(log) - 1) :
               (IsThrown(log[p]) /\ log[p].src = "rethrow" /\ log[p].at = "catch")
                 => ~IsCatch(log[p + 1])
    /\ (Ended(t) /\ CatchBodyThrew(last[t].tb, "rethrow")) =>
         LET tb == last[t].tb
             th == Throws(tb.log)
             j  == FirstTaker(tb.clauses, th[1].k, th[1].m)
             up == cx_tb[t][Top(t)]
         IN  /\ Bodies(tb.log) =
                  <<BodyEv("try", 0), BodyEv("catch", j)>> \o FinallyOnce(tb)
             /\ th[2].k = th[1].k
             /\ th[2].d = th[1].d
             /\ last[t].how # "completed"
             /\ last[t].how = "propagated" =>
                  /\ up.state = CX_IMPL_THROWN
                  /\ up.thrown_xid = th[1].k
                  /\ up.at = "offer" /\ up.k = 1
                  /\ cx_impl_exception[t].thrown_xid = th[1].k
                  /\ cx_user_data(t) = th[1].d
                  /\ up.log[Len(up.log)].at = "try" =>
                       up.caught_xid # up.thrown_xid
             /\ last[t].how = "unhandled" =>
                  /\ halted = "terminate"
                  /\ term_call.cex.thrown_xid = th[1].k
                  /\ term_call.cex.user_data = th[1].d

\* A rethrow from the catch body of a wildcard clause, with a payload and a
\* finally body, reached the enclosing scope, which was in its try body.
C5_Witness ==
  /\ last[1].how = "propagated"
  /\ CatchBodyThrew(last[1].tb, "rethrow")
  /\ last[1].tb.clauses = <<CX_XID_ANY>>
  /\ last[1].tb.finally_block = "present"
  /\ Throws(last[1].tb.log)[1].d = "data"
  /\ cx_tb[1][Top(1)].log[Len(cx_tb[1][Top(1)].log)].at = "try"

\* The inner construct of the scenario of C6, as it ends: its catch body,
\* having caught X, threw a different identifier Y that none of its own
\* clauses takes.
InnerCatchThrewOther(tb) ==
  /\ CatchBodyThrew(tb, "throw")
  /\ LET th == Throws(tb.log)
     IN  /\ th[2].k # th[1].k
         /\ FirstTaker(tb.clauses, th[2].k, th[2].m) = 0

\* The outer construct of the scenario of C6, as it ends: all that reached
\* it is one exception from a construct nested in its try body, and one of
\* its clauses takes it.
OuterTakesFromInner(tb) ==
  /\ OneThrowFromTry(tb)
  /\ LET e == Throws(tb.log)[1]
     IN  /\ e.src = "child"
         /\ FirstTaker(tb.clauses, e.k, e.m) # 0

\* C6: for nested constructs, when the catch body of the inner construct,
\* having caught X, throws a different identifier Y, the inner construct runs
\* its try, catch and finally bodies once each and hands Y to the outer
\* construct, which has run neither a catch body nor its finally body by
\* then; the outer construct catches Y with its first clause matching Y, runs
\* its try, catch and finally bodies once each and completes, and no exception
\* is current afterwards.
C6_InnerCatchThrowIsCaughtOutside ==
  \A t \in Threads :
    /\ (Ended(t) /\ InnerCatchThrewOther(last[t].tb)
          /\ Top(t) >= (IF last[t].how = "unhandled" THEN 2 ELSE 1)) =>
         LET tb == last[t].tb
             th == Throws(tb.log)
             up == cx_tb[t][Top(t)]
         IN  /\ last[t].how = "propagated"
             /\ Bodies(tb.log) =
                  <<BodyEv("try", 0),
                    BodyEv("catch", FirstTaker(tb.clauses, th[1].k, th[1].m))>>
                  \o FinallyOnce(tb)
             /\ up.state = CX_IMPL_THROWN
             /\ up.thrown_xid = th[2].k
             /\ up.log[Len(up.log)] =
                  ThrownEv(cx_impl_exception[t], up.log[Len(up.log)].at,
                           "child", cx_xid_matcher)
             /\ up.log[Len(up.log)].at = "try" =>
                  Bodies(up.log) = <<BodyEv("try", 0)>>
    /\ (Ended(t) /\ OuterTakesFromInner(last[t].tb)) =>
         LET tb == last[t].tb
             e  == Throws(tb.log)[1]
         IN  /\ last[t].how = "completed"
             /\ Bodies(tb.log) =
                  <<BodyEv("try", 0),
                    BodyEv("catch", FirstTaker(tb.clauses, e.k, e.m))>>
                  \o FinallyOnce(tb)
             /\ cx_current_exception(t) = NULL

\* The inner construct, with a finally body, has just handed Y to the outer
\* construct, which was in its try body.
C6_WitnessInner ==
  /\ last[1].how = "propagated"
  /\ InnerCatchThrewOther(last[1].tb)
  /\ last[1].tb.finally_block = "present"
  /\ Bodies(cx_tb[1][Top(1)].log) = <<BodyEv("try", 0)>>

\* The construct is running a catch body, or a finally body after a non-zero
\* identifier reached it.
BodyTiedToException(tb) ==
  \/ tb.at = "catch"
  \/ /\ tb.at = "finally" /\ tb.finally_block = "present"
     /\ \E p \in 1..Len(tb.log) : IsThrown(tb.log[p]) /\ tb.log[p].k # 0

\* C7: cx_current_exception() returns NULL before any throw and after a
\* construct has fully resolved, and returns the record at every point while
\* a catch body or a finally body tied to an exception is running, also after
\* a nested construct was entered and completed inside that body.
C7_CurrentExceptionWhileHandling ==
  \A t \in Threads :
    /\ acts[t] = 0 => cx_current_exception(t) = NULL
    /\ last[t].how = "completed" => cx_current_exception(t) = NULL
    /\ halted = "run" =>
         \A i \in 1..Top(t) :
           BodyTiedToException(cx_tb[t][i]) => cx_current_exception(t) # NULL

\* C8: a throw is delivered to the innermost active construct of the
\* throwing thread, the stack head: no scope is unwound, that scope becomes
\* THROWN with the thrown identifier and its clauses are offered from the
\* first on; scopes enclosing a live construct are never being offered, and a
\* construct that hands an exception to its parent has run its finally body
\* (if it has one) after the exception reached it.
C8_ThrowGoesToStackHead ==
  \A t \in Threads :
    /\ (last[t].how \in {"throw", "rethrow"} /\ halted = "run"
          /\ last[t].depth > 0) =>
         LET tb == cx_tb[t][Top(t)]
         IN  /\ Top(t) = last[t].depth
             /\ cx_impl_try_block_head[t] = Top(t)
             /\ tb.state = CX_IMPL_THROWN
             /\ tb.thrown_xid = last[t].xid
             /\ tb.at = "offer" /\ tb.k = 1
             /\ IsThrown(tb.log[Len(tb.log)])
             /\ tb.log[Len(tb.log)].src = last[t].how
    /\ halted = "run" =>
         \A i \in 1..(Top(t) - 1) : cx_tb[t][i].at # "offer"
    /\ last[t].how = "propagated" =>
         LET log == last[t].tb.log
             p == CHOOSE q \in 1..Len(log) :
                    /\ IsThrown(log[q])
                    /\ \A r \in (q + 1)..Len(log) : ~IsThrown(log[r])
         IN  /\ \E q \in 1..Len(log) : IsThrown(log[q])
             /\ last[t].tb.finally_block = "present" =>
                  \E q \in (p + 1)..Len(log) : IsFinally(log[q])
             /\ last[t].tb.finally_block # "unread"

\* A throw in the try body of a construct nested in the try body of another.
C8_Witness ==
  /\ last[1].how = "throw"
  /\ halted = "run"
  /\ last[1].depth = 2
  /\ cx_tb[1][2].log[Len(cx_tb[1][2].log)].at = "try"
  /\ cx_tb[1][1].at = "try"

\* C9: a throw executed while the scope stack of the thread is empty calls
\* the installed terminate handler with the record just written (identifier,
\* file and line of the throw, payload); no body runs because of it and the
\* program does not go on.
C9_ThrowOnEmptyStackTerminates ==
  \A t \in Threads :
    (last[t].how = "throw" /\ last[t].depth = 0) =>
      /\ halted = "terminate"
      /\ term_call = [handler |-> cx_impl_terminate_handler,
                      cex |-> [thrown_file |-> ThisFile,
                               thrown_line |-> last[t].line,
                               thrown_xid |-> last[t].xid,
                               user_data |-> last[t].data]]
      /\ cx_impl_exception[t] = term_call.cex
      /\ cx_tb[t] = <<>>

\* A throw with a payload outside every construct, a user handler installed.
C9_Witness ==
  /\ last[1].how = "throw"
  /\ last[1].depth = 0
  /\ last[1].data = "data"
  /\ term_call.handler = user_terminate_handler

\* C10: a rethrow executed when no exception is active, as in a try body
\* before anything was thrown or caught, calls the terminate handler.
C10_RethrowWithoutExceptionTerminates ==
  \A t \in Threads :
    (last[t].how = "rethrow" /\ last[t].xid = 0 /\ last[t].cur = NULL) =>
      /\ halted = "terminate"
      /\ term_call.handler = cx_impl_terminate_handler

\* The body of the construct in which control was when it was cancelled.
CancelledIn(tb) == Bodies(tb.log)[Len(Bodies(tb.log))].ev

\* C11: cx_cancel_try() in the try body or a catch body of the construct that
\* is the list head unlinks that block, the head becoming its parent, and
\* changes no block, the current exception or anything else; the construct
\* that is then left has not run its finally body (unless it was back in a
\* catch body after its finally body threw), and what was pending in it
\* is handed neither to the parent, which stays in the body it was in, nor to
\* the terminate handler.
C11_CancelUnlinksOnlyTheHead ==
  \A t \in Threads :
    /\ (last[t].how = "cancel" /\ last[t].head = Len(last[t].frames)) =>
         LET pre == last[t].frames
             i == Len(pre)
         IN  /\ cx_impl_try_block_head[t] = pre[i].parent
             /\ cx_impl_try_block_head[t] = i - 1
             /\ cx_tb[t] = [pre EXCEPT ![i].at = "cancelled"]
             /\ cx_impl_exception[t] = last[t].exc
             /\ halted = "run" /\ term_call = NoCall
    /\ (last[t].how = "cancelled"
          /\ CancelledIn(last[t].tb) \in {"try", "catch"}) =>
         /\ (\A p \in 1..Len(last[t].tb.log) :
               IsThrown(last[t].tb.log[p]) => last[t].tb.log[p].at # "finally")
              => FinallyCount(last[t].tb.log) = 0
         /\ halted = "run" /\ term_call = NoCall
         /\ cx_impl_try_block_head[t] = Top(t)
         /\ Top(t) = last[t].tb.parent
         /\ Top(t) > 0 =>
              LET up == cx_tb[t][Top(t)]
              IN  /\ up.at \in {"try", "catch", "finally"}
                  /\ up.log[Len(up.log)] = NestedEv(up.at, "cancelled")
                  /\ Len(Throws(up.log)) =
                       Len(Throws(SubSeq(up.log, 1, Len(up.log) - 1)))

\* A nested construct that was cancelled in its catch body, the caught
\* exception still recorded in its block, has been left.
C11_Witness ==
  /\ last[1].how = "cancelled"
  /\ CancelledIn(last[1].tb) = "catch"
  /\ last[1].tb.thrown_xid # 0
  /\ Top(1) = 1

CaughtBefore(log, p) ==
  LET Q == {q \in 2..(p - 1) : IsCatch(log[q])}
  IN  IF Q = {} THEN 0
      ELSE log[(CHOOSE q \in Q : \A r \in Q : r <= q) - 1].k

\* For every exception that reached the construct and whose offering is
\* over: the catch body entered is that of the first declared clause taking
\* it, and one is entered when a clause takes it and the block had not
\* caught that identifier before.
FirstDeclaredWins(tb) ==
  \A p \in 1..Len(tb.log) :
    (IsThrown(tb.log[p]) /\ (p < Len(tb.log) \/ tb.at # "offer")) =>
      LET e == tb.log[p]
          j == FirstTaker(tb.clauses, e.k, e.m)
          caught == p < Len(tb.log) /\ IsCatch(tb.log[p + 1])
      IN  /\ caught => tb.log[p + 1].k = j /\ j # 0
          /\ (j # 0 /\ CaughtBefore(tb.log, p) # e.k) => caught

\* C13: catch clauses are offered the thrown identifier in declaration order
\* and offering stops at the first clause that matches: when several clauses
\* of the construct would match, only the body of the first declared one
\* runs.
C13_FirstDeclaredClauseWins ==
  \A t \in Threads :
    /\ \A i \in 1..Top(t) : FirstDeclaredWins(cx_tb[t][i])
    /\ last[t].how \in {"completed", "propagated", "unhandled", "cancelled"}
         => FirstDeclaredWins(last[t].tb)

\* Under the matcher of the tests the first clause caught an identifier that
\* a clause declared after it takes as well.
C13_Witness ==
  /\ Top(1) = 1
  /\ cx_xid_matcher = test_xid_matcher_fn
  /\ LET tb == cx_tb[1][1]
     IN  /\ Len(tb.clauses) >= 2
         /\ \E p \in 1..(Len(tb.log) - 1) :
              /\ IsThrown(tb.log[p]) /\ tb.log[p].m = test_xid_matcher_fn
              /\ tb.log[p + 1] = BodyEv("catch", 1)
              /\ tb.clauses[1] # CX_XID_ANY
              /\ ClauseTakes(tb.clauses[2], tb.log[p].k, tb.log[p].m)

\* A clause was just evaluated: cx_impl_catch returned in a running program.
Offered(t) == last[t].how = "catch" /\ halted = "run"

\* C14, as stated: a clause for identifier C other than the wildcard catches
\* the pending identifier T exactly when the installed matcher returns true
\* for ( T, C ).
C14_CatchesExactlyWhenMatcherAccepts ==
  \A t \in Threads :
    (Offered(t) /\ last[t].catch_xid # CX_XID_ANY) =>
      (last[t].rv <=>
         CallMatcher(cx_xid_matcher, last[t].thrown_xid, last[t].catch_xid))

\* C14, amended: a clause for identifier C other than the wildcard catches
\* the pending identifier T exactly when the block has not caught T already
\* and the installed matcher returns true for ( thrown = T, catch = C ), in
\* that order.  With the matcher of the tests 0x0101 is caught by a clause
\* for 0x0100 and 0x0100 is not caught by a clause for 0x0101; with the
\* default matcher the clause catches exactly when T = C.
C14_CatchesWhenMatcherAcceptsAndNotCaughtBefore ==
  \A t \in Threads :
    (Offered(t) /\ last[t].catch_xid # CX_XID_ANY) =>
      LET T == last[t].thrown_xid
          C == last[t].catch_xid
          again == last[t].caught_xid = T
          tb == cx_tb[t][Top(t)]
      IN  /\ last[t].rv <=> (~again /\ CallMatcher(cx_xid_matcher, T, C))
          /\ last[t].rv <=> tb.state = CX_IMPL_CAUGHT
          /\ last[t].rv => tb.caught_xid = T /\ tb.at = "catch"
          /\ (cx_xid_matcher = test_xid_matcher_fn /\ ~again
                /\ T = TEST_XID_01 /\ C = TEST_XID_ANY) => last[t].rv
          /\ (cx_xid_matcher = test_xid_matcher_fn
                /\ T = TEST_XID_ANY /\ C = TEST_XID_01) => ~last[t].rv
          /\ cx_xid_matcher = cx_impl_default_xid_matcher_fn =>
               (last[t].rv <=> (~again /\ T = C))

\* Under the matcher of the tests a clause for 0x0100 caught 0x0101.
C14_Witness ==
  /\ Offered(1)
  /\ cx_xid_matcher = test_xid_matcher_fn
  /\ last[1].thrown_xid = TEST_XID_01
  /\ last[1].catch_xid = TEST_XID_ANY
  /\ last[1].rv

\* C15: a wildcard clause, cx_catch(), catches every pending non-zero
\* identifier unless the block has caught that identifier already; the
\* installed matcher has no say: both matchers refuse the pair of the thrown
\* identifier and CX_XID_ANY, and the clause catches all the same.
C15_WildcardCatchesEverything ==
  \A t \in Threads :
    (Offered(t) /\ last[t].catch_xid = CX_XID_ANY /\ last[t].thrown_xid # 0) =>
      LET tb == cx_tb[t][Top(t)]
      IN  /\ last[t].rv <=> last[t].caught_xid # last[t].thrown_xid
          /\ ~CallMatcher(cx_xid_matcher, last[t].thrown_xid, CX_XID_ANY)
          /\ last[t].rv =>
               /\ tb.state = CX_IMPL_CAUGHT
               /\ tb.caught_xid = last[t].thrown_xid
               /\ tb.at = "catch"
          /\ ~last[t].rv => tb.state = CX_IMPL_THROWN /\ tb.at = "offer"

\* A wildcard clause caught an identifier with the matcher of the tests
\* installed, the block having caught another identifier before.
C15_Witness ==
  /\ Offered(1)
  /\ last[1].catch_xid = CX_XID_ANY
  /\ last[1].rv
  /\ last[1].caught_xid # 0
  /\ cx_xid_matcher = test_xid_matcher_fn

\* The re-catch rule kept a wildcard clause from catching.
C15_WitnessRefused ==
  /\ Offered(1)
  /\ last[1].catch_xid = CX_XID_ANY
  /\ last[1].thrown_xid # 0
  /\ ~last[1].rv

\* ---------------------------------------------------------------------------
\* Accessors of the matcher and of the terminate handler
\* ---------------------------------------------------------------------------

SetMatcherHows == {"cx_set_xid_matcher", "restore_xid_matcher"}

SetTerminateHows == {"cx_set_terminate", "restore_terminate"}

\* The two matchers answer alike for every thrown and catch identifier.
SameMatching(m1, m2) ==
  \A x \in XIDs, c \in CatchXIDs : CallMatcher(m1, x, c) = CallMatcher(m2, x, c)

\* C16: after prev = cx_set_xid_matcher( f ); cx_set_xid_matcher( prev ) the
\* matcher installed is the one that was installed before the first call,
\* whichever it was, and it answers as before for every pair of identifiers;
\* after prev = cx_set_terminate( f ); cx_set_terminate( prev ) the terminate
\* handler installed is the one that was installed before the first call.
C16_SaveOverrideRestoreIsRoundTrip ==
  \A t \in Threads :
    /\ last[t].how = "restore_xid_matcher" =>
         /\ cx_xid_matcher = last[t].orig
         /\ SameMatching(cx_xid_matcher, last[t].orig)
    /\ last[t].how = "restore_terminate" =>
         cx_impl_terminate_handler = last[t].orig

\* The matcher of the tests was overridden by the default one and restored.
C16_Witness ==
  /\ last[1].how = "restore_xid_matcher"
  /\ last[1].orig = test_xid_matcher_fn
  /\ last[1].before = cx_impl_default_xid_matcher_fn
  /\ cx_xid_matcher = test_xid_matcher_fn

\* C17: what a setter returns is what the getter of the same function would
\* have returned just before the call, that is NULL when the function it
\* replaces is the default of the library.
C17_SetterReturnsWhatGetterWould ==
  \A t \in Threads :
    /\ last[t].how \in SetMatcherHows =>
         last[t].rv = Getter(last[t].before, cx_impl_default_xid_matcher_fn)
    /\ last[t].how \in SetTerminateHows =>
         last[t].rv = Getter(last[t].before, cx_impl_default_terminate_handler)

\* C18: a getter returns NULL exactly when the default of the library is
\* installed; after a setter was passed NULL the default is installed, the
\* getter returns NULL and, for the matcher, a clause other than the wildcard
\* matches exactly the identifier equal to its own; after a setter was passed
\* a function the getter returns that function.
C18_GetterNullIffDefault ==
  \A t \in Threads :
    /\ last[t].how = "cx_get_xid_matcher" =>
         /\ last[t].rv = NULL <=> cx_xid_matcher = cx_impl_default_xid_matcher_fn
         /\ last[t].rv # NULL => last[t].rv = cx_xid_matcher
    /\ last[t].how = "cx_get_terminate" =>
         /\ last[t].rv = NULL <=>
              cx_impl_terminate_handler = cx_impl_default_terminate_handler
         /\ last[t].rv # NULL => last[t].rv = cx_impl_terminate_handler
    /\ (last[t].how \in SetMatcherHows /\ last[t].fn = NULL) =>
         /\ Getter(cx_xid_matcher, cx_impl_default_xid_matcher_fn) = NULL
         /\ \A x \in XIDs, c \in CatchXIDs \ {CX_XID_ANY} :
              CallMatcher(cx_xid_matcher, x, c) <=> x = c
    /\ (last[t].how \in SetMatcherHows /\ last[t].fn # NULL) =>
         Getter(cx_xid_matcher, cx_impl_default_xid_matcher_fn) = last[t].fn
    /\ (last[t].how \in SetTerminateHows /\ last[t].fn = NULL) =>
         Getter(cx_impl_terminate_handler,
                cx_impl_default_terminate_handler) = NULL
    /\ (last[t].how \in SetTerminateHows /\ last[t].fn # NULL) =>
         Getter(cx_impl_terminate_handler,
                cx_impl_default_terminate_handler) = last[t].fn

\* ---------------------------------------------------------------------------
\* The payload
\* ---------------------------------------------------------------------------

\* Position p of the log holds the exception the construct is handling, and
\* the construct has since run bodies of its own only: no construct nested in
\* them, no cancel.
HandlingSince(log, p) ==
  /\ IsThrown(log[p])
  /\ \A q \in (p + 1)..Len(log) : IsBody(log[q])

\* C19: right after cx_throw( X, P ) reached a construct the payload is P;
\* inside the catch body that caught X and inside the finally body of that
\* construct cx_user_data() returns P, as long as the bodies run since the
\* throw entered no construct of their own; cx_user_data() returns NULL
\* before anything was thrown and after a construct has completed.
C19_PayloadInCatchAndFinally ==
  \A t \in Threads :
    /\ acts[t] = 0 => cx_user_data(t) = NULL
    /\ last[t].how = "completed" => cx_user_data(t) = NULL
    /\ (last[t].how = "throw" /\ halted = "run" /\ last[t].depth > 0) =>
         LET tb == cx_tb[t][Top(t)]
         IN  /\ cx_user_data(t) = last[t].data
             /\ tb.log[Len(tb.log)].d = last[t].data
    /\ (InBody(t) /\ Top(t) > 0) =>
         LET tb == cx_tb[t][Top(t)]
         IN  tb.at \in {"catch", "finally"} =>
               \A p \in 1..Len(tb.log) :
                 HandlingSince(tb.log, p) => cx_user_data(t) = tb.log[p].d

\* The finally body of a construct runs after its catch body caught an
\* exception thrown with a payload, and the payload is returned there.
C19_Witness ==
  /\ InBody(1) /\ Top(1) = 1
  /\ LET tb == cx_tb[1][1]
     IN  /\ tb.at = "finally"
         /\ Len(tb.log) = 4
         /\ tb.log[2].ev = "thrown" /\ tb.log[2].src = "throw"
         /\ tb.log[2].d = "data"
         /\ tb.log[3].ev = "catch"
         /\ tb.log[4].ev = "finally"
  /\ cx_user_data(1) = "data"

\* ---------------------------------------------------------------------------
\* No exception is lost
\* ---------------------------------------------------------------------------

\* Position p of the log holds the last exception that reached the construct.
LastThrown(log, p) ==
  /\ IsThrown(log[p])
  /\ \A q \in (p + 1)..Len(log) : ~IsThrown(log[q])

\* C20: a pending exception does not disappear, whatever ran in the finally
\* bodies it passes through.  A construct completes normally only if the
\* last non-zero identifier that reached it was caught by one of its clauses;
\* a construct that ends with a non-zero identifier pending hands that very
\* identifier to the enclosing construct, which is then THROWN with it, or,
\* when there is none, to the terminate handler.
C20_PendingExceptionNeverDisappears ==
  \A t \in Threads :
    /\ last[t].how = "completed" =>
         \A p \in 1..Len(last[t].tb.log) :
           (LastThrown(last[t].tb.log, p) /\ last[t].tb.log[p].k # 0) =>
             \E q \in (p + 1)..Len(last[t].tb.log) : IsCatch(last[t].tb.log[q])
    /\ (last[t].how = "propagated" /\ last[t].tb.thrown_xid # 0) =>
         LET tb == cx_tb[t][Top(t)]
         IN  /\ halted = "run"
             /\ tb.state = CX_IMPL_THROWN
             /\ tb.thrown_xid = last[t].tb.thrown_xid
    /\ (last[t].how = "unhandled" /\ last[t].tb.thrown_xid # 0) =>
         /\ halted = "terminate"
         /\ term_call.handler = cx_impl_terminate_handler

\* ---------------------------------------------------------------------------
\* Threads
\* ---------------------------------------------------------------------------

\* The blocks, the list head and the exception record of every thread other
\* than t are after the step what they were before it.
OthersUntouched(t) ==
  \A o \in Threads \ {t} :
    /\ cx_tb'[o] = cx_tb[o]
    /\ cx_impl_try_block_head'[o] = cx_impl_try_block_head[o]
    /\ cx_impl_exception'[o] = cx_impl_exception[o]

\* C21: under every interleaving of two threads, a statement or a driver
\* call, catch attempt or cancel executed by one thread changes neither the
\* list head, nor the blocks (their states, pending identifiers and
\* histories), nor the exception record of the other thread; in particular
\* what one thread throws never reaches a construct of the other.
C21_ThreadsAreIndependent ==
  [][\A t \in Threads : Step(t) => OthersUntouched(t)]_vars

\* Thread 1 has just thrown into its own construct while thread 2 is in the
\* try body of a construct of its own, with no exception.
C21_Witness ==
  /\ halted = "run"
  /\ last[1].how = "throw"
  /\ Top(1) = 1 /\ cx_tb[1][1].state = CX_IMPL_THROWN
  /\ cx_impl_exception[1].thrown_xid = TEST_XID_01
  /\ Top(2) = 1 /\ cx_tb[2][1].state = CX_IMPL_TRY
  /\ cx_tb[2][1].thrown_xid = 0
  /\ cx_impl_try_block_head[2] = 1
  /\ cx_impl_exception[2] = ZeroException

\* ---------------------------------------------------------------------------
\* Identifiers, states and driver calls
\* ---------------------------------------------------------------------------

\* C22: zero is never thrown.  In every reachable state the identifier of an
\* active exception record is not zero, and the pending identifier of every
\* live block in state CX_IMPL_THROWN is not zero, also after a rethrow and
\* after propagation from a nested construct.
C22_ZeroIsNeverThrown ==
  \A t \in Threads :
    /\ cx_current_exception(t) # NULL => cx_impl_exception[t].thrown_xid # 0
    /\ \A i \in 1..Top(t) :
         cx_tb[t][i].state = CX_IMPL_THROWN => cx_tb[t][i].thrown_xid # 0

\* C23: when a construct whose exception was not caught finishes its finally
\* body, the identifier raised against the enclosing construct, or handed to
\* the terminate handler when there is none, is the identifier that was
\* pending in the construct when its finally body started, whatever ran in
\* the finally body, constructs entered and completed there included.
C23_PropagatesThePendingIdentifier ==
  \A t \in Threads :
    /\ (last[t].how = "propagated" /\ halted = "run") =>
         LET tb == cx_tb[t][Top(t)]
         IN  /\ tb.state = CX_IMPL_THROWN
             /\ tb.thrown_xid = last[t].tb.thrown_xid
             /\ cx_impl_exception[t].thrown_xid = last[t].tb.thrown_xid
    /\ (last[t].how = "unhandled" /\ halted = "terminate") =>
         term_call.cex.thrown_xid = last[t].tb.thrown_xid

\* No body of the construct was entered twice: the try body, the body of each
\* catch clause (k is the clause's place) and the finally body.
NoBodyTwice(log) ==
  \A p, q \in 1..Len(log) :
    (p < q /\ IsBody(log[p]) /\ IsBody(log[q])) =>
      ~(log[p].ev = log[q].ev /\ log[p].k = log[q].k)

\* C24: control never cycles between the bodies of a construct and throws
\* delivered back to that construct.  In one execution of a construct no
\* body is entered a second time, so that the execution ends after at most
\* one run of the try body, of each catch body and of the finally body, with
\* the driver called at most CX_IMPL_TRY_CONDITION_CALLS times.
C24_NoCycleWithinAConstruct ==
  \A t \in Threads :
    \A i \in 1..Top(t) :
      /\ NoBodyTwice(cx_tb[t][i].log)
      /\ cx_tb[t][i].try_condition_calls <= CX_IMPL_TRY_CONDITION_CALLS

\* C25: a block is not unlinked when it moves to CX_IMPL_FINALLY but by the
\* driver call that follows its finally body.  While the finally body of a
\* construct is running (and the construct was not cancelled) its block is
\* the list head, and a throw executed in the finally body is delivered to
\* that same block.
C25_LinkedWhileFinallyRuns ==
  \A t \in Threads :
    /\ (InBody(t) /\ Top(t) > 0) =>
         LET tb == cx_tb[t][Top(t)]
         IN  tb.at = "finally" =>
               /\ tb.state = CX_IMPL_FINALLY
               /\ cx_impl_try_block_head[t] = Top(t)
    /\ (last[t].how = "throw" /\ halted = "run" /\ last[t].depth > 0) =>
         LET tb == cx_tb[t][Top(t)]
             e == tb.log[Len(tb.log)]
         IN  /\ Top(t) = last[t].depth
             /\ IsThrown(e)
             /\ cx_impl_try_block_head[t] = Top(t)
             /\ tb.state = CX_IMPL_THROWN
             /\ tb.thrown_xid = last[t].xid

\* A throw executed in the finally body of a nested construct has just been
\* delivered to the block of that construct.
C25_Witness ==
  /\ last[1].how = "throw" /\ halted = "run"
  /\ Top(1) = 2
  /\ LET tb == cx_tb[1][2]
     IN  /\ tb.log[Len(tb.log)].ev = "thrown"
         /\ tb.log[Len(tb.log)].at = "finally"
         /\ tb.state = CX_IMPL_THROWN
         /\ tb.parent = 1
  /\ cx_impl_try_block_head[1] = 2

\* The place of a state in INIT -> TRY -> THROWN -> CAUGHT -> FINALLY.
StateRank(s) ==
  CASE s = CX_IMPL_INIT -> 0
    [] s = CX_IMPL_TRY -> 1
    [] s = CX_IMPL_THROWN -> 2
    [] s = CX_IMPL_CAUGHT -> 3
    [] s = CX_IMPL_FINALLY -> 4

\* The blocks of thread t that are live before and after the step.
Surviving(t) ==
  {i \in 1..Len(cx_tb[t]) : i <= Len(cx_tb'[t])}

\* C26: the state of a block only moves forward along INIT -> TRY -> THROWN
\* -> CAUGHT -> FINALLY; during one execution of a construct it never
\* returns to an earlier state.
C26_StateOnlyMovesForward ==
  [][\A t \in Threads : \A i \in Surviving(t) :
       StateRank(cx_tb'[t][i].state) >= StateRank(cx_tb[t][i].state)]_vars

\* An exception is delivered to block i of thread t by the step: thrown or
\* rethrown in a body of that block, or let through by the construct nested
\* in it that the step ends; the block is the list head.
DeliveredTo(t, i) ==
  /\ i = Len(cx_tb'[t])
  /\ cx_impl_try_block_head'[t] = i
  /\ cx_tb'[t][i].thrown_xid = cx_impl_exception'[t].thrown_xid
  /\ \/ last'[t].how \in {"throw", "rethrow"} /\ last'[t].depth = i
     \/ last'[t].how = "propagated" /\ Len(cx_tb[t]) = i + 1

\* C26 as the code has it: the state of a block only moves forward along
\* INIT -> TRY -> THROWN -> CAUGHT -> FINALLY, except that it is set (back) to
\* THROWN whenever an exception is delivered to the block while one of its
\* bodies is running: from TRY, and from CAUGHT or FINALLY too.  It becomes
\* THROWN in no other way, CAUGHT only from THROWN, and never TRY again.
C26_StateMovesForwardOrBackToThrown ==
  [][\A t \in Threads : \A i \in Surviving(t) :
       LET s == cx_tb[t][i].state
           n == cx_tb'[t][i].state
       IN  /\ StateRank(n) < StateRank(s) =>
                n = CX_IMPL_THROWN /\ s \in {CX_IMPL_CAUGHT, CX_IMPL_FINALLY}
           /\ (n = CX_IMPL_THROWN
                 /\ (s # n \/ cx_tb'[t][i].log # cx_tb[t][i].log)) =>
                DeliveredTo(t, i)
           /\ (n = CX_IMPL_CAUGHT /\ s # n) => s = CX_IMPL_THROWN
           /\ n \notin {CX_IMPL_INIT, CX_IMPL_TRY} \/ n = s]_vars

\* A block is THROWN again after one of its clauses had caught: its catch
\* body threw.
C26_Witness ==
  /\ halted = "run" /\ Top(1) = 1
  /\ LET tb == cx_tb[1][1]
     IN  /\ tb.state = CX_IMPL_THROWN
         /\ tb.caught_xid # 0
         /\ tb.log[Len(tb.log)].ev = "thrown"
         /\ tb.log[Len(tb.log)].at = "catch"

\* C27: the driver is called at most CX_IMPL_TRY_CONDITION_CALLS times in
\* one execution of a construct, wherever its try, catch and finally bodies
\* throw: the count of calls of no block, live or just ended, exceeds three,
\* which is what assert( ++tb->try_condition_calls <= 3 ) tests.
C27_AtMostThreeDriverCalls ==
  \A t \in Threads :
    /\ \A i \in 1..Top(t) :
         cx_tb[t][i].try_condition_calls <= CX_IMPL_TRY_CONDITION_CALLS
    /\ Ended(t) =>
         last[t].tb.try_condition_calls <= CX_IMPL_TRY_CONDITION_CALLS

\* The step is the driver call that ends a construct of thread t: the
\* construct completes, or hands its exception to the enclosing construct or
\* to the terminate handler.
EndedByDriver(t) ==
  /\ last'[t].how \in {"completed", "propagated", "unhandled"}
  /\ cx_tb'[t] # cx_tb[t] \/ halted' # halted

\* C28: blocks are unlinked in strict LIFO order.  Whenever the driver
\* unlinks a block, that block is in state CX_IMPL_FINALLY, it is the
\* innermost live block and the list head (assert( cx_impl_try_block_head ==
\* tb ) holds), and the head becomes its parent, the block entered just
\* before it; this for any nesting with throws, rethrows, propagation and
\* cancels.
C28_UnlinkedInLifoOrder ==
  [][\A t \in Threads :
       EndedByDriver(t) =>
         LET i == Len(cx_tb[t])
             tb == cx_tb[t][i]
         IN  /\ i > 0
             /\ tb.state = CX_IMPL_FINALLY
             /\ cx_impl_try_block_head[t] = i
             /\ tb.parent = i - 1
             /\ cx_impl_try_block_head'[t] = tb.parent]_vars

\* A construct has just completed inside another one, after the construct
\* nested in it had been cancelled and left.
C28_Witness ==
  /\ last[1].how = "completed"
  /\ Top(1) = 1
  /\ cx_impl_try_block_head[1] = 1
  /\ \E p \in 1..Len(last[1].tb.log) :
       last[1].tb.log[p].ev = "nested" /\ last[1].tb.log[p].src = "cancelled"

\* A catch body of the construct ran to its end: the block is in state
\* CX_IMPL_FINALLY and, since the last catch body was entered, no exception
\* has reached the construct.
CaughtAndDone(tb) ==
  /\ tb.state = CX_IMPL_FINALLY
  /\ \E p \in 1..Len(tb.log) :
       /\ IsCatch(tb.log[p])
       /\ \A q \in (p + 1)..Len(tb.log) :
            ~IsThrown(tb.log[q]) /\ ~IsCatch(tb.log[q])

\* C29: once a catch body has run to its end without throwing, the exception
\* it caught is resolved.  The pending identifier of the block is zero from
\* the driver call before the finally body on, and the driver call after the
\* finally body completes the construct: nothing is raised against the
\* enclosing construct, whose state and pending identifier stay as they
\* were, and the terminate handler is not called.
C29_CaughtExceptionIsResolved ==
  [][\A t \in Threads :
       LET i == Len(cx_tb[t])
       IN  (i > 0 /\ CaughtAndDone(cx_tb[t][i])) =>
             /\ cx_tb[t][i].thrown_xid = 0
             /\ EndedByDriver(t) =>
                  /\ last'[t].how = "completed"
                  /\ halted' = "run"
                  /\ term_call' = term_call
                  /\ Len(cx_tb'[t]) = i - 1
                  /\ i > 1 =>
                       /\ cx_tb'[t][i - 1].state = cx_tb[t][i - 1].state
                       /\ cx_tb'[t][i - 1].thrown_xid =
                            cx_tb[t][i - 1].thrown_xid]_vars

\* A construct whose clause caught an exception has just completed in the
\* catch body of an enclosing construct, which is still CAUGHT with its own
\* pending identifier.
C29_Witness ==
  /\ last[1].how = "completed" /\ halted = "run"
  /\ CatchCount(last[1].tb.log) = 1
  /\ last[1].tb.finally_block = "present"
  /\ Top(1) = 1
  /\ cx_tb[1][1].state = CX_IMPL_CAUGHT
  /\ cx_tb[1][1].thrown_xid # 0
  /\ term_call = NoCall

\* The step is a catch attempt of thread t that fails.
CatchFails(t) ==
  /\ last'[t].how = "catch"
  /\ ~last'[t].rv
  /\ halted' = "run"
  /\ cx_tb'[t] # cx_tb[t]

\* C30: a catch attempt that fails, because the matcher returns false or
\* because the block has already caught the identifier, leaves the state,
\* the pending identifier and the caught identifier of the block, the list
\* head, the exception record and every other block as they were; control
\* goes to the next clause, which is offered the same pending identifier.
C30_FailedCatchChangesNothing ==
  [][\A t \in Threads :
       CatchFails(t) =>
         LET i == Len(cx_tb[t])
             tb == cx_tb[t][i]
             nb == cx_tb'[t][i]
         IN  /\ Len(cx_tb'[t]) = i
             /\ \A j \in 1..(i - 1) : cx_tb'[t][j] = cx_tb[t][j]
             /\ nb.state = tb.state /\ nb.state = CX_IMPL_THROWN
             /\ nb.thrown_xid = tb.thrown_xid
             /\ nb.thrown_xid = last'[t].thrown_xid
             /\ nb.caught_xid = tb.caught_xid
             /\ nb.parent = tb.parent
             /\ nb.log = tb.log
             /\ nb.at = "offer" /\ nb.k = tb.k + 1
             /\ cx_impl_try_block_head'[t] = cx_impl_try_block_head[t]
             /\ cx_impl_exception'[t] = cx_impl_exception[t]]_vars

\* The second clause of a construct has just refused, like the first, the
\* identifier that the construct caught before and that its catch body threw
\* again.
C30_Witness ==
  /\ Offered(1) /\ ~last[1].rv
  /\ Top(1) = 1
  /\ cx_tb[1][1].state = CX_IMPL_THROWN
  /\ cx_tb[1][1].k = 3
  /\ cx_tb[1][1].thrown_xid = TEST_XID_01
  /\ cx_tb[1][1].caught_xid = TEST_XID_01
  /\ CatchCount(cx_tb[1][1].log) = 1

\* ---------------------------------------------------------------------------
\* Catching, entering, completing
\* ---------------------------------------------------------------------------

\* C31: a successful catch attempt records caught_xid = thrown_xid and sets
\* the state to CX_IMPL_CAUGHT.  In every reachable state a block in state
\* CAUGHT has caught_xid equal to thrown_xid, both non-zero, and a block none
\* of whose clauses has ever caught has caught_xid 0.
C31_CaughtBlockHoldsWhatItCaught ==
  /\ \A t \in Threads :
       /\ \A i \in 1..Top(t) :
            LET tb == cx_tb[t][i]
            IN  /\ tb.state = CX_IMPL_CAUGHT =>
                     /\ tb.caught_xid = tb.thrown_xid
                     /\ tb.caught_xid # 0
                     /\ CatchCount(tb.log) > 0
                /\ CatchCount(tb.log) = 0 => tb.caught_xid = 0
       /\ (Offered(t) /\ last[t].rv) =>
            LET tb == cx_tb[t][Top(t)]
            IN  /\ tb.state = CX_IMPL_CAUGHT
                /\ tb.caught_xid = last[t].thrown_xid
                /\ tb.thrown_xid = last[t].thrown_xid

\* A clause has just caught an identifier in a block that had caught the
\* other identifier before.
C31_Witness ==
  /\ Offered(1) /\ last[1].rv
  /\ last[1].caught_xid = TEST_XID_ANY
  /\ cx_tb[1][Top(1)].state = CX_IMPL_CAUGHT
  /\ cx_tb[1][Top(1)].caught_xid = TEST_XID_01

\* The exception pending in the block was thrown from one of its catch
\* bodies, by cx_throw() or by a cx_throw with an identifier.
LatestThrow(tb) == Throws(tb.log)[Len(Throws(tb.log))]

ThrownFromCatchBody(tb) ==
  /\ Len(Throws(tb.log)) > 1
  /\ LatestThrow(tb).at = "catch"
  /\ LatestThrow(tb).src \in {"throw", "rethrow"}

C33_EnterLinksTheNewBlock ==
  [][\A t \in Threads :
       /\ Len(cx_tb'[t]) = Len(cx_tb[t]) + 1 =>
            LET n == Len(cx_tb'[t])
                nb == cx_tb'[t][n]
            IN  /\ nb.parent = cx_impl_try_block_head[t]
                /\ cx_impl_try_block_head'[t] = n
                /\ nb.state = CX_IMPL_TRY
                /\ nb.thrown_xid = 0 /\ nb.caught_xid = 0
                /\ \A i \in 1..(n - 1) : cx_tb'[t][i] = cx_tb[t][i]
                /\ cx_impl_exception'[t] = cx_impl_exception[t]
       /\ \A i \in Surviving(t) : cx_tb'[t][i].parent = cx_tb[t][i].parent]_vars

\* A construct has been entered in the catch body of another one, which is
\* still CAUGHT with the identifier it caught.
C33_Witness ==
  /\ halted = "run" /\ Top(1) = 2
  /\ cx_tb[1][2].state = CX_IMPL_TRY
  /\ cx_tb[1][2].parent = 1
  /\ cx_tb[1][2].log = <<BodyEv("try", 0)>>
  /\ cx_impl_try_block_head[1] = 2
  /\ cx_tb[1][1].state = CX_IMPL_CAUGHT
  /\ cx_tb[1][1].thrown_xid = TEST_XID_01

C35_OnlySettersChangeTheFunctions ==
  [][/\ cx_xid_matcher' # cx_xid_matcher =>
          \E t \in Threads :
            /\ last'[t].how \in SetMatcherHows
            /\ last'[t].before = cx_xid_matcher
            /\ acts'[t] = acts[t] + 1
     /\ cx_impl_terminate_handler' # cx_impl_terminate_handler =>
          \E t \in Threads :
            /\ last'[t].how \in SetTerminateHows
            /\ last'[t].before = cx_impl_terminate_handler
            /\ acts'[t] = acts[t] + 1]_vars

\* A construct in which the matcher of the tests was installed, and in which
\* an exception was thrown and caught, has completed, and that matcher is
\* still installed.
C35_Witness ==
  /\ last[1].how = "completed" /\ halted = "run"
  /\ Top(1) = 0
  /\ cx_xid_matcher = test_xid_matcher_fn
  /\ CatchCount(last[1].tb.log) = 1
  /\ Throws(last[1].tb.log)[1].m = cx_impl_default_xid_matcher_fn

\* The step is a catch attempt of thread t.
CatchAttempt(t) ==
  /\ last'[t].how = "catch"
  /\ halted' = "run"
  /\ cx_tb'[t] # cx_tb[t]

\* C36: the matcher is one reference of the process, shared by the threads
\* without synchronisation.  Every catch attempt of a thread, for a clause
\* other than the wildcard and an identifier the block has not caught, is
\* decided by the matcher installed at that moment, whichever thread
\* installed it; and the second call of prev = cx_set_xid_matcher( fn );
\* cx_set_xid_matcher( prev ) installs what was installed when the thread
\* made its first call, whatever the other thread has installed since, so
\* that two such idioms that overlap can leave another matcher installed than
\* the one installed before both.
C36_MatcherIsSharedByThreads ==
  [][\A t \in Threads :
       /\ (CatchAttempt(t) /\ last'[t].catch_xid # CX_XID_ANY
             /\ last'[t].caught_xid # last'[t].thrown_xid) =>
            (last'[t].rv <=>
               CallMatcher(cx_xid_matcher, last'[t].thrown_xid,
                           last'[t].catch_xid))
       /\ (last'[t].how = "restore_xid_matcher"
             /\ last[t].how = "cx_set_xid_matcher") =>
            /\ cx_xid_matcher' = last[t].before
            /\ last'[t].before = cx_xid_matcher]_vars

\* Both threads have ended their idiom, thread 1 having started it with the
\* default matcher installed and thread 2 in between, and the matcher now
\* installed is not the default one.
C36_Witness ==
  /\ last[1].how = "restore_xid_matcher"
  /\ last[2].how = "restore_xid_matcher"
  /\ last[1].orig = cx_impl_default_xid_matcher_fn
  /\ last[2].orig = test_xid_matcher_fn
  /\ cx_xid_matcher = test_xid_matcher_fn
  /\ acts[1] = 2 /\ acts[2] = 2

\* A clause of thread 2 has caught an identifier that only the matcher
\* installed by thread 1 accepts for it.
C36_WitnessCatch ==
  /\ Offered(2) /\ last[2].rv
  /\ last[2].catch_xid = TEST_XID_ANY
  /\ last[2].thrown_xid = TEST_XID_01
  /\ last[1].how = "cx_set_xid_matcher"
  /\ acts[2] = 2

\* The parent of every live block of thread t is a block entered before it
\* (or none) and the list head is a live block (or none): the chain of
\* parents from the head goes through strictly older blocks, so it is
\* finite, has no cycle and holds no block twice.
ChainIsAcyclic(t) ==
  /\ cx_impl_try_block_head[t] \in 0..Top(t)
  /\ \A i \in 1..Top(t) : cx_tb[t][i].parent \in 0..(i - 1)

\* The step is the first cx_cancel_try() in the try body or a catch body of
\* the innermost construct of thread t.
CancelledInTryOrCatch(t) ==
  /\ last'[t].how = "cancel"
  /\ cx_tb'[t] # cx_tb[t]
  /\ cx_tb[t][Len(cx_tb[t])].at \in {"try", "catch"}

\* C37: the stack is balanced.  When an execution of a construct ends, by
\* completing, by handing its exception on, or by cx_cancel_try() in its try
\* body or a catch body, the list head right afterwards is the block that
\* was the head when the construct was entered, which is the parent of its
\* block; and in every state the chain of parents from the head is finite
\* and acyclic.
C37_StackIsBalanced ==
  [][\A t \in Threads :
       /\ ChainIsAcyclic(t) /\ ChainIsAcyclic(t)'
       /\ (EndedByDriver(t) \/ CancelledInTryOrCatch(t)) =>
            LET tb == cx_tb[t][Len(cx_tb[t])]
            IN  /\ cx_impl_try_block_head'[t] = tb.parent
                /\ tb.parent = Len(cx_tb[t]) - 1]_vars

\* The construct nested in a catch body has just been cancelled from its own
\* catch body, and the head is the enclosing block again.
C37_Witness ==
  /\ last[1].how = "cancel" /\ halted = "run"
  /\ Top(1) = 2
  /\ last[1].frames[2].at = "catch"
  /\ last[1].head = 2
  /\ cx_tb[1][2].at = "cancelled"
  /\ cx_tb[1][1].at = "catch"
  /\ cx_impl_try_block_head[1] = 1

\* The step is a cx_throw of thread t, with or without identifier, executed
\* inside a construct and delivered.
ThrowDelivered(t) ==
  /\ last'[t].how \in {"throw", "rethrow"}
  /\ last'[t].depth > 0
  /\ halted' = "run"
  /\ cx_tb'[t] # cx_tb[t]

\* C38: a throw changes the exception record and, of the blocks, only the
\* state and the pending identifier of the list head.  No block is unlinked
\* or linked, the head keeps its caught identifier and its parent, and every
\* other block keeps its state and pending identifier.
C38_ThrowChangesOnlyTheHead ==
  [][\A t \in Threads :
       ThrowDelivered(t) =>
         LET h == cx_impl_try_block_head[t]
             tb == cx_tb[t][h]
             nb == cx_tb'[t][h]
         IN  /\ h = Len(cx_tb[t]) /\ h = last'[t].depth
             /\ cx_impl_try_block_head'[t] = h
             /\ Len(cx_tb'[t]) = Len(cx_tb[t])
             /\ \A j \in 1..(h - 1) : cx_tb'[t][j] = cx_tb[t][j]
             /\ nb.state = CX_IMPL_THROWN
             /\ nb.thrown_xid = last'[t].xid
             /\ nb.caught_xid = tb.caught_xid
             /\ nb.parent = tb.parent
             /\ nb.try_condition_calls = tb.try_condition_calls
             /\ cx_impl_exception'[t].thrown_xid = last'[t].xid
             /\ cx_impl_exception'[t].user_data = last'[t].data
             /\ cx_impl_exception'[t].thrown_file = ThisFile]_vars

\* The catch body of a nested construct has just thrown another identifier
\* than the one its block caught; the enclosing block is in its try body.
C38_Witness ==
  /\ last[1].how = "throw" /\ halted = "run"
  /\ Top(1) = 2
  /\ cx_tb[1][2].state = CX_IMPL_THROWN
  /\ cx_tb[1][2].caught_xid # 0
  /\ cx_tb[1][2].caught_xid # cx_tb[1][2].thrown_xid
  /\ cx_tb[1][2].parent = 1
  /\ cx_tb[1][1].state = CX_IMPL_TRY
  /\ cx_impl_try_block_head[1] = 2

\* The step is a cx_cancel_try() of thread t.
CancelStep(t) ==
  /\ last'[t].how = "cancel"
  /\ last'[t].frames = cx_tb[t]
  /\ last'[t].head = cx_impl_try_block_head[t]
  /\ last'[t] # last[t]

\* The record of thread t is that of the exception the block tb caught.
HoldsTheCaught(t, tb) ==
  /\ tb.state = CX_IMPL_CAUGHT
  /\ cx_impl_exception[t].thrown_file # NULL
  /\ cx_impl_exception[t].thrown_xid = tb.caught_xid

\* C39: cx_cancel_try() changes the list head and nothing else: the exception
\* record and the state, thrown_xid and caught_xid of the cancelled block are
\* as before, and so are all other blocks and both installed functions.
\* After a cancel from a catch body cx_current_exception() therefore still
\* returns the record of the caught exception, and the record stays as it is
\* until a throw or the completion of a construct assigns it.
C39_CancelChangesOnlyTheHead ==
  [][\A t \in Threads :
       /\ CancelStep(t) =>
            LET i == Len(cx_tb[t])
                tb == cx_tb[t][i]
                nb == cx_tb'[t][i]
                head == cx_impl_try_block_head[t]
            IN  /\ cx_impl_exception' = cx_impl_exception
                /\ Len(cx_tb'[t]) = i
                /\ nb.state = tb.state
                /\ nb.thrown_xid = tb.thrown_xid
                /\ nb.caught_xid = tb.caught_xid
                /\ nb.parent = tb.parent
                /\ \A j \in 1..(i - 1) : cx_tb'[t][j] = cx_tb[t][j]
                /\ cx_impl_try_block_head'[t] \in {head, tb.parent}
                /\ head = i => cx_impl_try_block_head'[t] = tb.parent
                /\ cx_xid_matcher' = cx_xid_matcher
                /\ cx_impl_terminate_handler' = cx_impl_terminate_handler
                /\ (tb.at = "catch" /\ HoldsTheCaught(t, tb)) =>
                     /\ cx_current_exception(t)' = "&cx_impl_exception"
                     /\ cx_impl_exception'[t].thrown_xid = nb.caught_xid
       /\ cx_impl_exception'[t] # cx_impl_exception[t] =>
            last'[t].how \in {"throw", "rethrow", "completed"}]_vars

\* The catch body of an outermost construct has just cancelled it: no block
\* is linked, and cx_current_exception() returns the exception it caught.
C39_Witness ==
  /\ last[1].how = "cancel" /\ halted = "run"
  /\ Top(1) = 1
  /\ last[1].frames[1].at = "catch"
  /\ last[1].head = 1
  /\ cx_impl_try_block_head[1] = NoBlock
  /\ cx_tb[1][1].at = "cancelled"
  /\ cx_tb[1][1].state = CX_IMPL_CAUGHT
  /\ cx_tb[1][1].caught_xid = TEST_XID_01
  /\ cx_current_exception(1) # NULL
  /\ cx_impl_exception[1].thrown_xid = TEST_XID_01
  /\ cx_impl_exception[1] = last[1].exc

\* The step is a call of cx_impl_catch by thread t.
CatchStep(t) ==
  /\ last'[t].how = "catch"
  /\ cx_tb'[t] # cx_tb[t] \/ halted' # halted

\* Every block of thread t whose catch clauses are being evaluated is in
\* state THROWN and has had an exception delivered to it.
AtClausesIsThrown(t) ==
  \A i \in 1..Top(t) :
    cx_tb[t][i].at = "offer" =>
      /\ cx_tb[t][i].state = CX_IMPL_THROWN
      /\ Len(Throws(cx_tb[t][i].log)) > 0

\* C40: cx_impl_catch is called only for a block in state CX_IMPL_THROWN, so
\* its assertion on the state never fails.  A block whose catch clauses are
\* being evaluated is in state THROWN and has had an exception delivered to
\* it; no catch attempt is made in state TRY, CAUGHT or FINALLY.
C40_CatchOnlyWhenThrown ==
  [][\A t \in Threads :
       /\ AtClausesIsThrown(t) /\ AtClausesIsThrown(t)'
       /\ CatchStep(t) =>
            /\ cx_tb[t][Top(t)].state = CX_IMPL_THROWN
            /\ cx_tb[t][Top(t)].thrown_xid = last'[t].thrown_xid
            /\ halted' = "run"
            /\ cx_tb'[t][Top(t)].state \in {CX_IMPL_THROWN, CX_IMPL_CAUGHT}]_vars

\* The first clause of a nested construct has just refused the exception
\* thrown in the try body: the block is still in state THROWN and its second
\* clause is next.
C40_Witness ==
  /\ last[1].how = "catch" /\ halted = "run"
  /\ ~last[1].rv
  /\ Top(1) = 2
  /\ cx_tb[1][2].state = CX_IMPL_THROWN
  /\ cx_tb[1][2].at = "offer"
  /\ cx_tb[1][2].k = 2
  /\ cx_tb[1][2].thrown_xid = last[1].thrown_xid
  /\ cx_tb[1][1].state = CX_IMPL_TRY

====
